---- MODULE Spec2Model ----
(***************************************************************************)
(* A model of the two programs of the Mask R-CNN samples:                  *)
(*                                                                         *)
(*   - samples/humanoids_pouring/demo.ipynb, the demo notebook, with its   *)
(*     code cells run top to bottom (a raised exception stops the run);    *)
(*   - samples/tabletop/tabletop.py, the command line tool, as far as its  *)
(*     usage text in samples/tabletop/README.md documents it.              *)
(*                                                                         *)
(* SpecNotebook is the notebook, SpecCli is the command line tool.         *)
(***************************************************************************)
EXTENDS Integers, Sequences, FiniteSets, TLC

VARIABLES
    \* ---- the world the notebook runs in (inputs, fixed by Init)
    weights_exists,     \* os.path.exists(TRAINED_MODEL_PATH)
    dataset_readable,   \* the 'val' subset under datasets/bottles can be read
    val_count,          \* number of image records the 'val' subset holds
    folder_count,       \* number of files in IMAGE_DIR
    default_config,     \* attributes YCBVideoConfigInference() comes with
    \* ---- the notebook's kernel state
    nb_pc,              \* the statement the run is at
    raised,             \* the uncaught exception that stopped the run
    config,             \* the object bound to `config`
    environ,            \* os.environ, the two CUDA entries
    model,              \* the object bound to `model`
    image_info,         \* dataset_val.image_info
    val_index,          \* the value random.randint returned in the val-set cell
    random_val_img_info,\* the record bound to `random_val_img_info`
    image,              \* the array bound to `image`
    detect_batch,       \* the list handed to model.detect
    results,            \* the list bound to `results`
    displayed,          \* the arguments of visualize.display_instances
    calls,              \* the library calls that have returned, in order
    \* ---- the command line tool
    argv,               \* the command line of the invocation
    cli_pc,             \* the step tabletop.py is at
    args,               \* the namespace produced by argument parsing
    cli_model,          \* the model object created by the tool
    invoked,            \* the operations invoked on the model, in order
    cli_raised,         \* the uncaught error that ended the tool
    cli_world           \* which of the files the command line names can be read

nbvars == <<weights_exists, dataset_readable, val_count, folder_count,
            default_config, nb_pc, raised, config, environ, model, image_info,
            val_index, random_val_img_info, image, detect_batch, results,
            displayed, calls>>

clivars == <<argv, cli_pc, args, cli_model, invoked, cli_raised, cli_world>>

vars == <<nbvars, clivars>>

-----------------------------------------------------------------------------
(* Bounds *)

\* largest number of image records in the validation subset
MaxValImages == 2

\* largest number of files in the images folder
MaxFolderFiles == 2

\* number of distinct paths a command line flag may carry
MaxPaths == 1

-----------------------------------------------------------------------------
(* Values *)

None == "None"

\* a Python name that has not been bound yet
Unbound == [bound |-> FALSE]

\* the path of the i-th record of the validation subset
ValPath(i) == <<"val", i>>

\* os.path.join(IMAGE_DIR, name) for the k-th file of the folder
FolderPath(k) == <<"folder", k>>

\* skimage.io.imread: the array read from a path
imread(path) == [bound |-> TRUE, read_from |-> path]

\* random.randint(a, b): any integer N with a <= N <= b
randint(a, b) == a .. b

\* random.choice(seq): any element of a non-empty sequence
choice(seq) == {seq[i] : i \in 1 .. Len(seq)}

\* next(os.walk(IMAGE_DIR))[2]: the names of the files in the folder
file_names == [k \in 1 .. folder_count |-> FolderPath(k)]

\* the records load_dataset puts in image_info, one for each image
LoadedImageInfo == [i \in 1 .. val_count |-> [path |-> ValPath(i)]]

\* model.detect(images): a list with one result for each image of the batch
DetectResults(images) == [i \in 1 .. Len(images) |-> [detected_on |-> images[i]]]

GpuIds == {"0", "1"}

Confidences == {"0.7", "0.8", "0.9"}


-----------------------------------------------------------------------------
(* The command line tool is not running while the notebook is, and the     *)
(* notebook is not running while the tool is.                              *)

CliIdle ==
    /\ argv = None
    /\ cli_pc = "idle"
    /\ args = None
    /\ cli_model = Unbound
    /\ invoked = <<>>
    /\ cli_raised = None
    /\ cli_world = None

NotebookIdle ==
    /\ weights_exists = FALSE
    /\ dataset_readable = FALSE
    /\ val_count = 0
    /\ folder_count = 0
    /\ default_config = None
    /\ nb_pc = "idle"
    /\ raised = None
    /\ config = Unbound
    /\ environ = None
    /\ model = Unbound
    /\ image_info = <<>>
    /\ val_index = -1
    /\ random_val_img_info = Unbound
    /\ image = Unbound
    /\ detect_batch = <<>>
    /\ results = <<>>
    /\ displayed = Unbound
    /\ calls = <<>>

-----------------------------------------------------------------------------
(* demo.ipynb, cells run top to bottom *)

NotebookInit ==
    /\ weights_exists \in BOOLEAN
    /\ dataset_readable \in BOOLEAN
    /\ val_count \in 0 .. MaxValImages
    /\ folder_count \in 0 .. MaxFolderFiles
    /\ default_config \in [DETECTION_MIN_CONFIDENCE : Confidences, GPU_ID : GpuIds]
    /\ nb_pc = "assert_exists"
    /\ raised = None
    /\ config = Unbound
    /\ environ = [CUDA_DEVICE_ORDER |-> None, CUDA_VISIBLE_DEVICES |-> None]
    /\ model = Unbound
    /\ image_info = <<>>
    /\ val_index = -1
    /\ random_val_img_info = Unbound
    /\ image = Unbound
    /\ detect_batch = <<>>
    /\ results = <<>>
    /\ displayed = Unbound
    /\ calls = <<>>
    /\ CliIdle

\* an uncaught exception: the run of the cells stops at the statement
Raise(exception) ==
    /\ nb_pc' = "stopped"
    /\ raised' = exception

\* the statement completes and the run goes on with the next one
Goto(statement) ==
    /\ nb_pc' = statement
    /\ raised' = raised

\* a call into the library returns
Return(call) == calls' = Append(calls, call)

\* mutant: the first code cell without its assertion
AssertTrainedModelPathExists_unchecked ==
    /\ nb_pc = "assert_exists"
    /\ Goto("config")
    /\ calls' = calls
    /\ UNCHANGED <<weights_exists, dataset_readable, val_count, folder_count,
                   default_config, config, environ, model, image_info,
                   val_index, random_val_img_info, image, detect_batch,
                   results, displayed, clivars>>

\* first code cell: assert os.path.exists(TRAINED_MODEL_PATH)
AssertTrainedModelPathExists ==
    /\ nb_pc = "assert_exists"
    /\ IF weights_exists THEN Goto("config") ELSE Raise("AssertionError")
    /\ calls' = calls
    /\ UNCHANGED <<weights_exists, dataset_readable, val_count, folder_count,
                   default_config, config, environ, model, image_info,
                   val_index, random_val_img_info, image, detect_batch,
                   results, displayed, clivars>>

\* config = tabletop.configurations.YCBVideoConfigInference()
YCBVideoConfigInference ==
    /\ nb_pc = "config"
    /\ config' = [bound |-> TRUE,
                  DETECTION_MIN_CONFIDENCE |-> default_config.DETECTION_MIN_CONFIDENCE,
                  GPU_ID |-> default_config.GPU_ID]
    /\ Goto("min_confidence")
    /\ Return("YCBVideoConfigInference")
    /\ UNCHANGED <<weights_exists, dataset_readable, val_count, folder_count,
                   default_config, environ, model, image_info, val_index,
                   random_val_img_info, image, detect_batch, results,
                   displayed, clivars>>

\* mutant: the configurations cell without the assignment of 0.8
SetDetectionMinConfidence_dropped ==
    /\ nb_pc = "min_confidence"
    /\ config' = config
    /\ Goto("device_order")
    /\ calls' = calls
    /\ UNCHANGED <<weights_exists, dataset_readable, val_count, folder_count,
                   default_config, environ, model, image_info, val_index,
                   random_val_img_info, image, detect_batch, results,
                   displayed, clivars>>

\* config.DETECTION_MIN_CONFIDENCE = 0.8 ; config.display()
SetDetectionMinConfidence ==
    /\ nb_pc = "min_confidence"
    /\ config' = [config EXCEPT !.DETECTION_MIN_CONFIDENCE = "0.8"]
    /\ Goto("device_order")
    /\ calls' = calls
    /\ UNCHANGED <<weights_exists, dataset_readable, val_count, folder_count,
                   default_config, environ, model, image_info, val_index,
                   random_val_img_info, image, detect_batch, results,
                   displayed, clivars>>

\* os.environ['CUDA_DEVICE_ORDER'] = 'PCI_BUS_ID'
SetCudaDeviceOrder ==
    /\ nb_pc = "device_order"
    /\ environ' = [environ EXCEPT !.CUDA_DEVICE_ORDER = "PCI_BUS_ID"]
    /\ Goto("visible_devices")
    /\ calls' = calls
    /\ UNCHANGED <<weights_exists, dataset_readable, val_count, folder_count,
                   default_config, config, model, image_info, val_index,
                   random_val_img_info, image, detect_batch, results,
                   displayed, clivars>>

\* os.environ['CUDA_VISIBLE_DEVICES'] = config.GPU_ID
SetCudaVisibleDevices ==
    /\ nb_pc = "visible_devices"
    /\ environ' = [environ EXCEPT !.CUDA_VISIBLE_DEVICES = config.GPU_ID]
    /\ Goto("create_model")
    /\ calls' = calls
    /\ UNCHANGED <<weights_exists, dataset_readable, val_count, folder_count,
                   default_config, config, model, image_info, val_index,
                   random_val_img_info, image, detect_batch, results,
                   displayed, clivars>>

\* mutant: the model cell going on without loading the weights
MaskRCNN_without_weights ==
    /\ nb_pc = "create_model"
    /\ model' = [bound |-> TRUE, mode |-> "inference", model_dir |-> "MODEL_DIR",
                 config |-> config, environ |-> environ, weights |-> None]
    /\ Goto("load_dataset")
    /\ Return("MaskRCNN")
    /\ UNCHANGED <<weights_exists, dataset_readable, val_count, folder_count,
                   default_config, config, environ, image_info, val_index,
                   random_val_img_info, image, detect_batch, results,
                   displayed, clivars>>

\* model = modellib.MaskRCNN(mode="inference", model_dir=MODEL_DIR, config=config)
MaskRCNN ==
    /\ nb_pc = "create_model"
    /\ model' = [bound |-> TRUE, mode |-> "inference", model_dir |-> "MODEL_DIR",
                 config |-> config, environ |-> environ, weights |-> None]
    /\ Goto("load_weights")
    /\ Return("MaskRCNN")
    /\ UNCHANGED <<weights_exists, dataset_readable, val_count, folder_count,
                   default_config, config, environ, image_info, val_index,
                   random_val_img_info, image, detect_batch, results,
                   displayed, clivars>>

\* model.load_weights(TRAINED_MODEL_PATH, by_name=True)
load_weights ==
    /\ nb_pc = "load_weights"
    /\ model' = [model EXCEPT !.weights = "TRAINED_MODEL_PATH"]
    /\ Goto("load_dataset")
    /\ Return("load_weights")
    /\ UNCHANGED <<weights_exists, dataset_readable, val_count, folder_count,
                   default_config, config, environ, image_info, val_index,
                   random_val_img_info, image, detect_batch, results,
                   displayed, clivars>>

\* dataset_val = tabletop.datasets.YCBVideoDataset()
\* dataset_val.load_dataset(dataset_root_dir, 'val')
load_dataset ==
    /\ nb_pc = "load_dataset"
    /\ IF dataset_readable
          THEN /\ image_info' = LoadedImageInfo
               /\ Return("load_dataset")
               /\ Goto("val_image")
          ELSE /\ image_info' = image_info
               /\ calls' = calls
               /\ Raise("IOError")
    /\ UNCHANGED <<weights_exists, dataset_readable, val_count, folder_count,
                   default_config, config, environ, model, val_index,
                   random_val_img_info, image, detect_batch, results,
                   displayed, clivars>>

\* random_val_img_info = dataset_val.image_info[random.randint(0, len(dataset_val.image_info))]
\* image = skimage.io.imread(random_val_img_info['path'])
LoadRandomValImage ==
    /\ nb_pc = "val_image"
    /\ \E n \in randint(0, Len(image_info)) :
          /\ val_index' = n
          /\ IF n + 1 \in DOMAIN image_info
                THEN /\ random_val_img_info' = image_info[n + 1]
                     /\ image' = imread(image_info[n + 1].path)
                     /\ Return("imread")
                     /\ Goto("folder_image")
                ELSE /\ random_val_img_info' = random_val_img_info
                     /\ image' = image
                     /\ calls' = calls
                     /\ Raise("IndexError")
    /\ UNCHANGED <<weights_exists, dataset_readable, val_count, folder_count,
                   default_config, config, environ, model, image_info,
                   detect_batch, results, displayed, clivars>>

\* mutant: the folder cell reading the file without binding it to `image`
LoadRandomFolderImage_unbound ==
    /\ nb_pc = "folder_image"
    /\ IF file_names = <<>>
          THEN /\ calls' = calls
               /\ Raise("IndexError")
          ELSE /\ Return("imread")
               /\ Goto("detect")
    /\ UNCHANGED <<weights_exists, dataset_readable, val_count, folder_count,
                   default_config, config, environ, model, image_info,
                   val_index, random_val_img_info, image, detect_batch,
                   results, displayed, clivars>>

\* file_names = next(os.walk(IMAGE_DIR))[2]
\* image = skimage.io.imread(os.path.join(IMAGE_DIR, random.choice(file_names)))
LoadRandomFolderImage ==
    /\ nb_pc = "folder_image"
    /\ IF file_names = <<>>
          THEN /\ image' = image
               /\ calls' = calls
               /\ Raise("IndexError")
          ELSE /\ \E name \in choice(file_names) : image' = imread(name)
               /\ Return("imread")
               /\ Goto("detect")
    /\ UNCHANGED <<weights_exists, dataset_readable, val_count, folder_count,
                   default_config, config, environ, model, image_info,
                   val_index, random_val_img_info, detect_batch, results,
                   displayed, clivars>>

\* results = model.detect([image], verbose=1)
detect ==
    /\ nb_pc = "detect"
    /\ detect_batch' = <<image>>
    /\ results' = DetectResults(<<image>>)
    /\ Goto("display")
    /\ Return("detect")
    /\ UNCHANGED <<weights_exists, dataset_readable, val_count, folder_count,
                   default_config, config, environ, model, image_info,
                   val_index, random_val_img_info, image, displayed, clivars>>

\* r = results[0]
\* visualize.display_instances(image, r['rois'], r['masks'], r['class_ids'], ...)
display_instances ==
    /\ nb_pc = "display"
    /\ displayed' = [bound |-> TRUE, image |-> image, r |-> results[1]]
    /\ Goto("done")
    /\ Return("display_instances")
    /\ UNCHANGED <<weights_exists, dataset_readable, val_count, folder_count,
                   default_config, config, environ, model, image_info,
                   val_index, random_val_img_info, image, detect_batch,
                   results, clivars>>

NotebookNext ==
    \/ AssertTrainedModelPathExists
    \/ YCBVideoConfigInference
    \/ SetDetectionMinConfidence
    \/ SetCudaDeviceOrder
    \/ SetCudaVisibleDevices
    \/ MaskRCNN
    \/ load_weights
    \/ load_dataset
    \/ LoadRandomValImage
    \/ LoadRandomFolderImage
    \/ detect
    \/ display_instances

SpecNotebook == NotebookInit /\ [][NotebookNext]_vars

-----------------------------------------------------------------------------
(* tabletop.py, the command line tool *)

\* the paths a flag may carry
PathNames == <<"/path/1", "/path/2", "/path/3", "/path/4">>

Paths == {PathNames[i] : i \in 1 .. MaxPaths}

\* <command>: 'train', 'splash', 'evaluate'
Commands == {"train", "splash", "evaluate"}

\* --weights: path to weights .h5 file or 'coco'
COCO == "coco"

\* the file the COCO-pretrained weights are read from
COCO_WEIGHTS_PATH == "COCO-pretrained weights"

\* the flags the usage line shows without brackets
RequiredFlags_none == {}

RequiredFlags == {"weights"}

\* --logs: logs and checkpoints directory (default=logs/)
DEFAULT_LOGS_DIR_other == "./"

DEFAULT_LOGS_DIR == "logs/"

\* the weights an argument of --weights stands for
WeightsSource_literal(weights) == weights

WeightsSource(weights) == IF weights = COCO THEN COCO_WEIGHTS_PATH ELSE weights

\* the operation of the model a command is dispatched to
OperationOf_detect(command) == "detect"

OperationOf(command) ==
    CASE command = "train" -> "train"
      [] command = "splash" -> "detect"
      [] command = "evaluate" -> "evaluate"

\* the inputs --image and --video supply to the splash mode
SplashInputs_image_only(a) == {<<"image", a.image>>} \ {<<"image", None>>}

SplashInputs(a) ==
    {<<"image", a.image>>, <<"video", a.video>>} \ {<<"image", None>>, <<"video", None>>}

\* every command line: each flag given or omitted, the command given or not
CommandLines ==
    [dataset : Paths \cup {None},
     weights : Paths \cup {COCO, None},
     logs    : Paths \cup {None},
     image   : Paths \cup {None},
     video   : Paths \cup {None},
     command : Commands \cup {"other", None}]

CliInit ==
    /\ argv \in CommandLines
    /\ cli_world \in [weights_file : BOOLEAN, dataset : BOOLEAN]
    /\ cli_pc = "parse"
    /\ args = None
    /\ cli_model = Unbound
    /\ invoked = <<>>
    /\ cli_raised = None
    /\ NotebookIdle

\* the tool ends with an uncaught error
CliRaise(error) ==
    /\ cli_pc' = "failed"
    /\ cli_raised' = error

CliGoto(step) ==
    /\ cli_pc' = step
    /\ cli_raised' = cli_raised

\* an operation is invoked on the model, on the input a flag supplied
Invoke(operation, flag, input) == invoked' = Append(invoked, <<operation, flag, input>>)

\* argument parsing: a missing required argument ends the tool with the usage
\* error; an omitted --logs takes its default
ParseArgs ==
    /\ cli_pc = "parse"
    /\ IF (\E flag \in RequiredFlags : argv[flag] = None) \/ argv.command = None
          THEN /\ cli_pc' = "rejected"
               /\ cli_raised' = "usage"
               /\ args' = args
          ELSE /\ args' = [argv EXCEPT !.logs = IF argv.logs = None
                                                   THEN DEFAULT_LOGS_DIR
                                                   ELSE argv.logs]
               /\ CliGoto("create_model")
    /\ UNCHANGED <<argv, cli_world, cli_model, invoked, nbvars>>

\* the model object is created with the logs directory
CreateModel ==
    /\ cli_pc = "create_model"
    /\ cli_model' = [bound |-> TRUE, model_dir |-> args.logs, weights |-> None]
    /\ CliGoto("load_weights")
    /\ UNCHANGED <<argv, cli_world, args, invoked, nbvars>>

\* the weights --weights stands for are loaded into the model; a missing
\* weights file is an uncaught error
LoadWeights ==
    /\ cli_pc = "load_weights"
    /\ IF args.weights # COCO /\ ~cli_world.weights_file
          THEN /\ CliRaise("IOError")
               /\ UNCHANGED <<cli_model, invoked>>
          ELSE /\ cli_model' = [cli_model EXCEPT !.weights = WeightsSource(args.weights)]
               /\ Invoke("load_weights", "weights", WeightsSource(args.weights))
               /\ CliGoto("dispatch")
    /\ UNCHANGED <<argv, cli_world, args, nbvars>>

\* <command> train: the dataset is loaded, then training is run on the model
Train ==
    /\ cli_pc = "dispatch"
    /\ args.command = "train"
    /\ IF args.dataset = None \/ ~cli_world.dataset
          THEN /\ CliRaise("IOError")
               /\ UNCHANGED invoked
          ELSE /\ Invoke(OperationOf("train"), "dataset", args.dataset)
               /\ CliGoto("done")
    /\ UNCHANGED <<argv, cli_world, args, cli_model, nbvars>>

\* <command> evaluate: the dataset is loaded, then the model is evaluated
Evaluate ==
    /\ cli_pc = "dispatch"
    /\ args.command = "evaluate"
    /\ IF args.dataset = None \/ ~cli_world.dataset
          THEN /\ CliRaise("IOError")
               /\ UNCHANGED invoked
          ELSE /\ Invoke(OperationOf("evaluate"), "dataset", args.dataset)
               /\ CliGoto("done")
    /\ UNCHANGED <<argv, cli_world, args, cli_model, nbvars>>

\* <command> splash: detection is run on the image and on the video supplied
Splash ==
    /\ cli_pc = "dispatch"
    /\ args.command = "splash"
    /\ IF SplashInputs(args) = {}
          THEN /\ CliRaise("IOError")
               /\ UNCHANGED invoked
          ELSE /\ invoked' = invoked \o
                     (IF <<"image", args.image>> \in SplashInputs(args)
                         THEN <<<<OperationOf("splash"), "image", args.image>>>> ELSE <<>>) \o
                     (IF <<"video", args.video>> \in SplashInputs(args)
                         THEN <<<<OperationOf("splash"), "video", args.video>>>> ELSE <<>>)
               /\ CliGoto("done")
    /\ UNCHANGED <<argv, cli_world, args, cli_model, nbvars>>

\* a command that is none of the three: nothing is dispatched
Unrecognized ==
    /\ cli_pc = "dispatch"
    /\ args.command \notin Commands
    /\ CliGoto("done")
    /\ UNCHANGED <<argv, cli_world, args, cli_model, invoked, nbvars>>

CliNext ==
    \/ ParseArgs
    \/ CreateModel
    \/ LoadWeights
    \/ Train
    \/ Splash
    \/ Evaluate
    \/ Unrecognized

SpecCli == CliInit /\ [][CliNext]_vars

-----------------------------------------------------------------------------
(* Properties of the notebook *)

\* every return of `later` in the log comes after a return of `earlier`
Before(earlier, later) ==
    \A i \in DOMAIN calls :
        calls[i] = later => \E j \in 1 .. (i - 1) : calls[j] = earlier

Occurs(call) == \E i \in DOMAIN calls : calls[i] = call

\* C3: the notebook is the linear chain load model -> load weights -> load
\* image -> run detection -> visualize: the model is created before
\* load_weights is called on it, the weights and an image are loaded before
\* detect is called, display_instances is called only after detect has
\* returned, and no step runs before its predecessor has completed.
C3_LinearChain ==
    /\ Before("MaskRCNN", "load_weights")
    /\ Before("load_weights", "imread")
    /\ Before("load_weights", "detect")
    /\ Before("imread", "detect")
    /\ Before("detect", "display_instances")
    /\ Occurs("load_weights") => model.bound
    /\ Occurs("detect") =>
          /\ model.bound
          /\ model.weights = "TRAINED_MODEL_PATH"
          /\ detect_batch[1].bound
    /\ Occurs("display_instances") => results # <<>>

C3_Witness ==
    /\ nb_pc = "done"
    /\ calls[Len(calls)] = "display_instances"

\* C4: when TRAINED_MODEL_PATH does not exist the assertion of the first code
\* cell fails and the run stops there: the configuration is never built, no
\* model is created, load_weights and detect are never called, and nothing
\* recovers or retries.
C4_MissingWeightsStopRun ==
    ~weights_exists =>
        /\ nb_pc \in {"assert_exists", "stopped"}
        /\ nb_pc = "stopped" => raised = "AssertionError"
        /\ config = Unbound
        /\ model = Unbound
        /\ calls = <<>>
        /\ detect_batch = <<>>

C4_Witness ==
    /\ ~weights_exists
    /\ nb_pc = "stopped"
    /\ raised = "AssertionError"

\* C8: for a non-empty dataset_val.image_info the index drawn by the cell
\* 'Load a random image from val set' is a valid index of image_info, so the
\* cell obtains an image record and never fails with an out-of-range index.
C8_ValIndexInRange ==
    (Len(image_info) > 0 /\ val_index # -1) =>
        /\ val_index \in 0 .. (Len(image_info) - 1)
        /\ random_val_img_info = image_info[val_index + 1]

\* C9: when MaskRCNN is constructed in inference mode the configuration and
\* the environment are set (DETECTION_MIN_CONFIDENCE 0.8, CUDA_DEVICE_ORDER
\* 'PCI_BUS_ID', CUDA_VISIBLE_DEVICES config.GPU_ID), and none of the three
\* changes between the construction and the detect call.
C9_ConfiguredBeforeModel ==
    model.bound =>
        /\ model.mode = "inference"
        /\ model.config.DETECTION_MIN_CONFIDENCE = "0.8"
        /\ model.environ.CUDA_DEVICE_ORDER = "PCI_BUS_ID"
        /\ model.environ.CUDA_VISIBLE_DEVICES = model.config.GPU_ID
        /\ model.environ.CUDA_VISIBLE_DEVICES \in GpuIds
        /\ config = model.config
        /\ environ = model.environ

C9_Witness ==
    /\ model.bound
    /\ Occurs("detect")

\* C10: the image visualized is the image detection was run on, detection is
\* run on a batch of exactly one image whose single result is the one
\* displayed, and that image is the one read from the images folder, never
\* the one read from the validation set.
C10_DisplayedIsDetected ==
    /\ Occurs("detect") =>
          /\ Len(detect_batch) = 1
          /\ Len(results) = 1
          /\ detect_batch[1].bound
          /\ detect_batch[1].read_from \in choice(file_names)
          /\ detect_batch[1] # imread(random_val_img_info.path)
    /\ displayed.bound =>
          /\ displayed.image = detect_batch[1]
          /\ displayed.r = results[1]
          /\ displayed.r.detected_on = displayed.image

C10_Witness ==
    /\ displayed.bound
    /\ val_index \in 0 .. (Len(image_info) - 1)

-----------------------------------------------------------------------------
(* Properties of the command line tool *)

\* the operations a mode runs on the model
ModeOperations == {"train", "detect", "evaluate"}

\* the operations of the modes that have been invoked so far
InvokedModeOperations ==
    {invoked[i][1] : i \in DOMAIN invoked} \cap ModeOperations

\* C1: the tool dispatches three ways on <command>: an invocation with command
\* 'train', 'splash' or 'evaluate' that reaches the dispatch and runs to its
\* end has invoked exactly one of the operations of the model, train for
\* 'train', detect for 'splash', evaluate for 'evaluate', and at no point an
\* operation of another command.
C1_ThreeWayDispatch ==
    /\ argv.command = "train" => InvokedModeOperations \subseteq {"train"}
    /\ argv.command = "splash" => InvokedModeOperations \subseteq {"detect"}
    /\ argv.command = "evaluate" => InvokedModeOperations \subseteq {"evaluate"}
    /\ (cli_pc = "done" /\ argv.command \in {"train", "splash", "evaluate"}) =>
          Cardinality(InvokedModeOperations) = 1

C1_Witness ==
    /\ cli_pc = "done"
    /\ argv.command = "splash"
    /\ InvokedModeOperations = {"detect"}

\* C2: --weights is the only required flag: an invocation that omits it is
\* rejected by argument parsing before any mode is dispatched, and argument
\* parsing rejects no invocation for omitting --dataset, --logs, --image or
\* --video.
C2_WeightsRequired ==
    /\ argv.weights = None =>
          /\ cli_pc \in {"parse", "rejected"}
          /\ cli_model = Unbound
          /\ invoked = <<>>
    /\ cli_pc = "rejected" => (argv.weights = None \/ argv.command = None)

C2_Witness ==
    /\ cli_pc = "rejected"
    /\ argv.weights = None
    /\ argv.command \in {"train", "splash", "evaluate"}

\* C5: --weights takes a path or the literal 'coco': 'train' starts from the
\* COCO-pretrained weights with 'coco' and from the weights of the file with
\* a path, and in both cases the weights are loaded into the model before
\* the train operation begins.
C5_WeightsLoadedBeforeTrain ==
    \A i \in DOMAIN invoked :
        invoked[i][1] = "train" =>
            /\ \E j \in 1 .. (i - 1) :
                  /\ invoked[j][1] = "load_weights"
                  /\ invoked[j][3] = cli_model.weights
            /\ argv.weights = "coco" => cli_model.weights = COCO_WEIGHTS_PATH
            /\ argv.weights # "coco" => cli_model.weights = argv.weights

C5_Witness ==
    /\ argv.weights = "coco"
    /\ \E i \in DOMAIN invoked : invoked[i][1] = "train"

\* C6: with 'splash', when --image is supplied detection is run on that image
\* and when --video is supplied detection is run on that video: the splash
\* mode reaches the detect call on the supplied input.
C6_SplashDetectsSuppliedInput ==
    (argv.command = "splash" /\ cli_pc = "done") =>
        /\ argv.image # None => \E i \in DOMAIN invoked : invoked[i] = <<"detect", "image", argv.image>>
        /\ argv.video # None => \E i \in DOMAIN invoked : invoked[i] = <<"detect", "video", argv.video>>
        /\ \A i \in DOMAIN invoked :
              invoked[i][1] = "detect" =>
                  /\ invoked[i][2] = "image" => (argv.image # None /\ invoked[i][3] = argv.image)
                  /\ invoked[i][2] = "video" => (argv.video # None /\ invoked[i][3] = argv.video)
                  /\ invoked[i][2] \in {"image", "video"}

C6_Witness ==
    /\ argv.command = "splash"
    /\ cli_pc = "done"
    /\ argv.video # None
    /\ \E i \in DOMAIN invoked : invoked[i] = <<"detect", "video", argv.video>>

\* C7: when --logs is omitted the logs and checkpoints directory the
\* dispatched mode uses is the default 'logs/'; when --logs is given, the
\* given path is used.
C7_LogsDirectory ==
    cli_model.bound =>
        /\ argv.logs = None => cli_model.model_dir = "logs/"
        /\ argv.logs # None => cli_model.model_dir = argv.logs

C7_Witness ==
    /\ cli_pc = "done"
    /\ argv.logs = None
    /\ InvokedModeOperations # {}
    /\ cli_model.model_dir = "logs/"

=============================================================================
